---- MODULE Spec2Model ----
(***************************************************************************)
(* A model of mozilla_linux_pkg_manager/cli.py: the clean-up run that      *)
(* fetches the APT index (Release, then one Packages file per              *)
(* architecture), parses the control blocks, selects the expired nightly   *)
(* versions and hands them in batches to batch_delete_versions.            *)
(*                                                                         *)
(* Python strings are sequences of one-character strings, so that split,   *)
(* strip and strptime are computed the way the interpreter computes them.  *)
(* A printable ASCII character, "\t", "\n", "\f" and "\r" stand for        *)
(* themselves; any other character is written by its code point, as in     *)
(* "U+00A0" or "U+FF12".                                                   *)
(***************************************************************************)
EXTENDS Integers, Sequences, FiniteSets, TLC

(***************************************************************************)
(* Characters and the str methods the program calls.                       *)
(***************************************************************************)
\* The characters [0-9] of a regular expression.
AsciiDigits == {"0", "1", "2", "3", "4", "5", "6", "7", "8", "9"}

\* The decimal digits (Unicode category Nd), which are the characters \d
\* matches and int() converts: DigitChars[d + 1] are those of value d.
DigitChars ==
    <<{"0", "U+0660", "U+06F0", "U+07C0", "U+0966", "U+09E6", "U+0A66",
       "U+0AE6", "U+0B66", "U+0BE6", "U+0C66", "U+0CE6", "U+0D66",
       "U+0DE6", "U+0E50", "U+0ED0", "U+0F20", "U+1040", "U+1090",
       "U+17E0", "U+1810", "U+1946", "U+19D0", "U+1A80", "U+1A90",
       "U+1B50", "U+1BB0", "U+1C40", "U+1C50", "U+A620", "U+A8D0",
       "U+A900", "U+A9D0", "U+A9F0", "U+AA50", "U+ABF0", "U+FF10",
       "U+104A0", "U+10D30", "U+11066", "U+110F0", "U+11136", "U+111D0",
       "U+112F0", "U+11450", "U+114D0", "U+11650", "U+116C0", "U+11730",
       "U+118E0", "U+11950", "U+11C50", "U+11D50", "U+11DA0", "U+16A60",
       "U+16AC0", "U+16B50", "U+1D7CE", "U+1D7D8", "U+1D7E2", "U+1D7EC",
       "U+1D7F6", "U+1E140", "U+1E2F0", "U+1E950", "U+1FBF0"},
      {"1", "U+0661", "U+06F1", "U+07C1", "U+0967", "U+09E7", "U+0A67",
       "U+0AE7", "U+0B67", "U+0BE7", "U+0C67", "U+0CE7", "U+0D67",
       "U+0DE7", "U+0E51", "U+0ED1", "U+0F21", "U+1041", "U+1091",
       "U+17E1", "U+1811", "U+1947", "U+19D1", "U+1A81", "U+1A91",
       "U+1B51", "U+1BB1", "U+1C41", "U+1C51", "U+A621", "U+A8D1",
       "U+A901", "U+A9D1", "U+A9F1", "U+AA51", "U+ABF1", "U+FF11",
       "U+104A1", "U+10D31", "U+11067", "U+110F1", "U+11137", "U+111D1",
       "U+112F1", "U+11451", "U+114D1", "U+11651", "U+116C1", "U+11731",
       "U+118E1", "U+11951", "U+11C51", "U+11D51", "U+11DA1", "U+16A61",
       "U+16AC1", "U+16B51", "U+1D7CF", "U+1D7D9", "U+1D7E3", "U+1D7ED",
       "U+1D7F7", "U+1E141", "U+1E2F1", "U+1E951", "U+1FBF1"},
      {"2", "U+0662", "U+06F2", "U+07C2", "U+0968", "U+09E8", "U+0A68",
       "U+0AE8", "U+0B68", "U+0BE8", "U+0C68", "U+0CE8", "U+0D68",
       "U+0DE8", "U+0E52", "U+0ED2", "U+0F22", "U+1042", "U+1092",
       "U+17E2", "U+1812", "U+1948", "U+19D2", "U+1A82", "U+1A92",
       "U+1B52", "U+1BB2", "U+1C42", "U+1C52", "U+A622", "U+A8D2",
       "U+A902", "U+A9D2", "U+A9F2", "U+AA52", "U+ABF2", "U+FF12",
       "U+104A2", "U+10D32", "U+11068", "U+110F2", "U+11138", "U+111D2",
       "U+112F2", "U+11452", "U+114D2", "U+11652", "U+116C2", "U+11732",
       "U+118E2", "U+11952", "U+11C52", "U+11D52", "U+11DA2", "U+16A62",
       "U+16AC2", "U+16B52", "U+1D7D0", "U+1D7DA", "U+1D7E4", "U+1D7EE",
       "U+1D7F8", "U+1E142", "U+1E2F2", "U+1E952", "U+1FBF2"},
      {"3", "U+0663", "U+06F3", "U+07C3", "U+0969", "U+09E9", "U+0A69",
       "U+0AE9", "U+0B69", "U+0BE9", "U+0C69", "U+0CE9", "U+0D69",
       "U+0DE9", "U+0E53", "U+0ED3", "U+0F23", "U+1043", "U+1093",
       "U+17E3", "U+1813", "U+1949", "U+19D3", "U+1A83", "U+1A93",
       "U+1B53", "U+1BB3", "U+1C43", "U+1C53", "U+A623", "U+A8D3",
       "U+A903", "U+A9D3", "U+A9F3", "U+AA53", "U+ABF3", "U+FF13",
       "U+104A3", "U+10D33", "U+11069", "U+110F3", "U+11139", "U+111D3",
       "U+112F3", "U+11453", "U+114D3", "U+11653", "U+116C3", "U+11733",
       "U+118E3", "U+11953", "U+11C53", "U+11D53", "U+11DA3", "U+16A63",
       "U+16AC3", "U+16B53", "U+1D7D1", "U+1D7DB", "U+1D7E5", "U+1D7EF",
       "U+1D7F9", "U+1E143", "U+1E2F3", "U+1E953", "U+1FBF3"},
      {"4", "U+0664", "U+06F4", "U+07C4", "U+096A", "U+09EA", "U+0A6A",
       "U+0AEA", "U+0B6A", "U+0BEA", "U+0C6A", "U+0CEA", "U+0D6A",
       "U+0DEA", "U+0E54", "U+0ED4", "U+0F24", "U+1044", "U+1094",
       "U+17E4", "U+1814", "U+194A", "U+19D4", "U+1A84", "U+1A94",
       "U+1B54", "U+1BB4", "U+1C44", "U+1C54", "U+A624", "U+A8D4",
       "U+A904", "U+A9D4", "U+A9F4", "U+AA54", "U+ABF4", "U+FF14",
       "U+104A4", "U+10D34", "U+1106A", "U+110F4", "U+1113A", "U+111D4",
       "U+112F4", "U+11454", "U+114D4", "U+11654", "U+116C4", "U+11734",
       "U+118E4", "U+11954", "U+11C54", "U+11D54", "U+11DA4", "U+16A64",
       "U+16AC4", "U+16B54", "U+1D7D2", "U+1D7DC", "U+1D7E6", "U+1D7F0",
       "U+1D7FA", "U+1E144", "U+1E2F4", "U+1E954", "U+1FBF4"},
      {"5", "U+0665", "U+06F5", "U+07C5", "U+096B", "U+09EB", "U+0A6B",
       "U+0AEB", "U+0B6B", "U+0BEB", "U+0C6B", "U+0CEB", "U+0D6B",
       "U+0DEB", "U+0E55", "U+0ED5", "U+0F25", "U+1045", "U+1095",
       "U+17E5", "U+1815", "U+194B", "U+19D5", "U+1A85", "U+1A95",
       "U+1B55", "U+1BB5", "U+1C45", "U+1C55", "U+A625", "U+A8D5",
       "U+A905", "U+A9D5", "U+A9F5", "U+AA55", "U+ABF5", "U+FF15",
       "U+104A5", "U+10D35", "U+1106B", "U+110F5", "U+1113B", "U+111D5",
       "U+112F5", "U+11455", "U+114D5", "U+11655", "U+116C5", "U+11735",
       "U+118E5", "U+11955", "U+11C55", "U+11D55", "U+11DA5", "U+16A65",
       "U+16AC5", "U+16B55", "U+1D7D3", "U+1D7DD", "U+1D7E7", "U+1D7F1",
       "U+1D7FB", "U+1E145", "U+1E2F5", "U+1E955", "U+1FBF5"},
      {"6", "U+0666", "U+06F6", "U+07C6", "U+096C", "U+09EC", "U+0A6C",
       "U+0AEC", "U+0B6C", "U+0BEC", "U+0C6C", "U+0CEC", "U+0D6C",
       "U+0DEC", "U+0E56", "U+0ED6", "U+0F26", "U+1046", "U+1096",
       "U+17E6", "U+1816", "U+194C", "U+19D6", "U+1A86", "U+1A96",
       "U+1B56", "U+1BB6", "U+1C46", "U+1C56", "U+A626", "U+A8D6",
       "U+A906", "U+A9D6", "U+A9F6", "U+AA56", "U+ABF6", "U+FF16",
       "U+104A6", "U+10D36", "U+1106C", "U+110F6", "U+1113C", "U+111D6",
       "U+112F6", "U+11456", "U+114D6", "U+11656", "U+116C6", "U+11736",
       "U+118E6", "U+11956", "U+11C56", "U+11D56", "U+11DA6", "U+16A66",
       "U+16AC6", "U+16B56", "U+1D7D4", "U+1D7DE", "U+1D7E8", "U+1D7F2",
       "U+1D7FC", "U+1E146", "U+1E2F6", "U+1E956", "U+1FBF6"},
      {"7", "U+0667", "U+06F7", "U+07C7", "U+096D", "U+09ED", "U+0A6D",
       "U+0AED", "U+0B6D", "U+0BED", "U+0C6D", "U+0CED", "U+0D6D",
       "U+0DED", "U+0E57", "U+0ED7", "U+0F27", "U+1047", "U+1097",
       "U+17E7", "U+1817", "U+194D", "U+19D7", "U+1A87", "U+1A97",
       "U+1B57", "U+1BB7", "U+1C47", "U+1C57", "U+A627", "U+A8D7",
       "U+A907", "U+A9D7", "U+A9F7", "U+AA57", "U+ABF7", "U+FF17",
       "U+104A7", "U+10D37", "U+1106D", "U+110F7", "U+1113D", "U+111D7",
       "U+112F7", "U+11457", "U+114D7", "U+11657", "U+116C7", "U+11737",
       "U+118E7", "U+11957", "U+11C57", "U+11D57", "U+11DA7", "U+16A67",
       "U+16AC7", "U+16B57", "U+1D7D5", "U+1D7DF", "U+1D7E9", "U+1D7F3",
       "U+1D7FD", "U+1E147", "U+1E2F7", "U+1E957", "U+1FBF7"},
      {"8", "U+0668", "U+06F8", "U+07C8", "U+096E", "U+09EE", "U+0A6E",
       "U+0AEE", "U+0B6E", "U+0BEE", "U+0C6E", "U+0CEE", "U+0D6E",
       "U+0DEE", "U+0E58", "U+0ED8", "U+0F28", "U+1048", "U+1098",
       "U+17E8", "U+1818", "U+194E", "U+19D8", "U+1A88", "U+1A98",
       "U+1B58", "U+1BB8", "U+1C48", "U+1C58", "U+A628", "U+A8D8",
       "U+A908", "U+A9D8", "U+A9F8", "U+AA58", "U+ABF8", "U+FF18",
       "U+104A8", "U+10D38", "U+1106E", "U+110F8", "U+1113E", "U+111D8",
       "U+112F8", "U+11458", "U+114D8", "U+11658", "U+116C8", "U+11738",
       "U+118E8", "U+11958", "U+11C58", "U+11D58", "U+11DA8", "U+16A68",
       "U+16AC8", "U+16B58", "U+1D7D6", "U+1D7E0", "U+1D7EA", "U+1D7F4",
       "U+1D7FE", "U+1E148", "U+1E2F8", "U+1E958", "U+1FBF8"},
      {"9", "U+0669", "U+06F9", "U+07C9", "U+096F", "U+09EF", "U+0A6F",
       "U+0AEF", "U+0B6F", "U+0BEF", "U+0C6F", "U+0CEF", "U+0D6F",
       "U+0DEF", "U+0E59", "U+0ED9", "U+0F29", "U+1049", "U+1099",
       "U+17E9", "U+1819", "U+194F", "U+19D9", "U+1A89", "U+1A99",
       "U+1B59", "U+1BB9", "U+1C49", "U+1C59", "U+A629", "U+A8D9",
       "U+A909", "U+A9D9", "U+A9F9", "U+AA59", "U+ABF9", "U+FF19",
       "U+104A9", "U+10D39", "U+1106F", "U+110F9", "U+1113F", "U+111D9",
       "U+112F9", "U+11459", "U+114D9", "U+11659", "U+116C9", "U+11739",
       "U+118E9", "U+11959", "U+11C59", "U+11D59", "U+11DA9", "U+16A69",
       "U+16AC9", "U+16B59", "U+1D7D7", "U+1D7E1", "U+1D7EB", "U+1D7F5",
       "U+1D7FF", "U+1E149", "U+1E2F9", "U+1E959", "U+1FBF9"}>>

Digits == UNION {DigitChars[d] : d \in 1..10}

DigitVal(c) == CHOOSE d \in 0..9 : c \in DigitChars[d + 1]

\* The characters str.isspace() holds of, which strip() and split() remove.
Whitespace ==
    {"\t", "\n", "U+000B", "\f", "\r", "U+001C", "U+001D", "U+001E",
     "U+001F", " ", "U+0085", "U+00A0", "U+1680", "U+2000", "U+2001",
     "U+2002", "U+2003", "U+2004", "U+2005", "U+2006", "U+2007",
     "U+2008", "U+2009", "U+200A", "U+2028", "U+2029", "U+202F",
     "U+205F", "U+3000"}

\* s[a:b] with 1-based inclusive ends; empty when b < a.
Slice(s, a, b) == IF b < a THEN <<>> ELSE SubSeq(s, a, b)

StartsWithAt(s, sep, i) ==
    /\ i + Len(sep) - 1 <= Len(s)
    /\ \A k \in 1..Len(sep) : s[i + k - 1] = sep[k]

\* str.find: the least index >= i where sep occurs in s, 0 when there is none.
RECURSIVE Find(_, _, _)
Find(s, sep, i) ==
    IF i + Len(sep) - 1 > Len(s) THEN 0
    ELSE IF StartsWithAt(s, sep, i) THEN i
    ELSE Find(s, sep, i + 1)

\* str.split(sep, maxsplit) for a non-empty sep; maxsplit = -1 is unlimited.
RECURSIVE Split(_, _, _)
Split(s, sep, maxsplit) ==
    LET i == Find(s, sep, 1) IN
    IF maxsplit = 0 \/ i = 0 THEN <<s>>
    ELSE <<Slice(s, 1, i - 1)>>
         \o Split(Slice(s, i + Len(sep), Len(s)), sep,
                  IF maxsplit < 0 THEN maxsplit ELSE maxsplit - 1)

RECURSIVE LStrip(_)
LStrip(s) ==
    IF s # <<>> /\ s[1] \in Whitespace THEN LStrip(Tail(s)) ELSE s

RECURSIVE RStrip(_)
RStrip(s) ==
    IF s # <<>> /\ s[Len(s)] \in Whitespace
    THEN RStrip(Slice(s, 1, Len(s) - 1)) ELSE s

\* str.strip()
Strip(s) == RStrip(LStrip(s))

\* The index of the first whitespace character of s at or after i, Len(s) + 1
\* when there is none.
RECURSIVE WordEnd(_, _)
WordEnd(s, i) ==
    IF i > Len(s) \/ s[i] \in Whitespace THEN i ELSE WordEnd(s, i + 1)

\* str.split() without arguments: the maximal runs of non-whitespace.
RECURSIVE SplitWhitespace(_)
RECURSIVE SplitWords(_, _)
SplitWords(t, e) ==
    <<Slice(t, 1, e - 1)>> \o SplitWhitespace(Slice(t, e, Len(t)))

SplitStripped(t) == IF t = <<>> THEN <<>> ELSE SplitWords(t, WordEnd(t, 1))

SplitWhitespace(s) == SplitStripped(LStrip(s))

\* int(s) of a string s of digits, possibly after blanks.
RECURSIVE IntOf(_)
IntOf(s) ==
    IF s = <<>> THEN 0
    ELSE IF s[Len(s)] \in Digits
         THEN 10 * IntOf(Slice(s, 1, Len(s) - 1)) + DigitVal(s[Len(s)])
         ELSE IntOf(Slice(s, 1, Len(s) - 1))

AllDigits(s) == s # <<>> /\ \A k \in 1..Len(s) : s[k] \in Digits

(***************************************************************************)
(* datetime: strptime with "%Y%m%d%H%M%S", now - then, timedelta(days=n).  *)
(***************************************************************************)
\* A value carries its type, as an object does: a str object holds the
\* sequence of its characters, an int object its number.
str(s) == [type |-> "str", value |-> s]

int(n) == [type |-> "int", value |-> n]

None == [type |-> "NoneType"]

Datetime(y, mo, d, h, mi, s, us) ==
    [type |-> "datetime", year |-> y, month |-> mo, day |-> d, hour |-> h,
     minute |-> mi, second |-> s, microsecond |-> us]

IsLeap(y) == y % 4 = 0 /\ (y % 100 # 0 \/ y % 400 = 0)

DaysInMonth(y, m) ==
    IF m = 2 THEN (IF IsLeap(y) THEN 29 ELSE 28)
    ELSE IF m \in {4, 6, 9, 11} THEN 30 ELSE 31

RECURSIVE DaysBeforeMonth(_, _)
DaysBeforeMonth(y, m) ==
    IF m <= 1 THEN 0 ELSE DaysBeforeMonth(y, m - 1) + DaysInMonth(y, m - 1)

DaysBeforeYear(y) ==
    LET p == y - 1 IN p * 365 + p \div 4 - p \div 100 + p \div 400

\* date.toordinal()
ToOrdinal(dt) ==
    DaysBeforeYear(dt.year) + DaysBeforeMonth(dt.year, dt.month) + dt.day

\* The directives after %Y, in the order of the format string.
StrptimeFields == <<"m", "d", "H", "M", "S">>

\* Whether the two characters a, b match a two-character alternative of the
\* directive's pattern (these come first in each pattern).
TwoCharMatch(f, a, b) ==
    CASE f = "m" -> \/ a = "1" /\ b \in {"0", "1", "2"}
                    \/ a = "0" /\ b \in AsciiDigits \ {"0"}
      [] f = "d" -> \/ a = "3" /\ b \in {"0", "1"}
                    \/ a \in {"1", "2"} /\ b \in Digits
                    \/ a = "0" /\ b \in AsciiDigits \ {"0"}
                    \/ a = " " /\ b \in AsciiDigits \ {"0"}
      [] f = "H" -> \/ a = "2" /\ b \in {"0", "1", "2", "3"}
                    \/ a \in {"0", "1"} /\ b \in Digits
      [] f = "M" -> a \in {"0", "1", "2", "3", "4", "5"} /\ b \in Digits
      [] f = "S" -> \/ a = "6" /\ b \in {"0", "1"}
                    \/ a \in {"0", "1", "2", "3", "4", "5"} /\ b \in Digits

\* Whether the character a matches the directive's one-character
\* alternative: [1-9] for %m and %d, \d for the others.
OneCharMatch(f, a) ==
    IF f \in {"m", "d"} THEN a \in AsciiDigits \ {"0"} ELSE a \in Digits

\* The regular expression's match of directives k.. from position p: the
\* alternatives are tried in the pattern's order and an alternative is kept
\* only if the remaining directives match after it (backtracking).
RECURSIVE MatchFields(_, _, _)
MatchFields(s, p, k) ==
    IF k > Len(StrptimeFields) THEN [ok |-> TRUE, vals |-> <<>>, end |-> p]
    ELSE
      LET f    == StrptimeFields[k]
          two  == p + 1 <= Len(s) /\ TwoCharMatch(f, s[p], s[p + 1])
          one  == p <= Len(s) /\ OneCharMatch(f, s[p])
          r2   == IF two THEN MatchFields(s, p + 2, k + 1)
                  ELSE [ok |-> FALSE]
          r1   == IF one THEN MatchFields(s, p + 1, k + 1)
                  ELSE [ok |-> FALSE]
      IN IF r2.ok
         THEN [ok |-> TRUE, end |-> r2.end,
               vals |-> <<IntOf(Slice(s, p, p + 1))>> \o r2.vals]
         ELSE IF r1.ok
         THEN [ok |-> TRUE, end |-> r1.end,
               vals |-> <<IntOf(Slice(s, p, p))>> \o r1.vals]
         ELSE [ok |-> FALSE]

\* The datetime of a match m of a text whose first four characters are the
\* year, or ValueError when data remains after the match or the fields are
\* no date-time.
DatetimeOfMatch(s, year, m) ==
    IF ~m.ok THEN [ok |-> FALSE, exc |-> "ValueError"]
    ELSE IF \/ m.end # Len(s) + 1
            \/ year < 1
            \/ m.vals[2] > DaysInMonth(year, m.vals[1])
            \/ m.vals[5] > 59
    THEN [ok |-> FALSE, exc |-> "ValueError"]
    ELSE [ok |-> TRUE,
          value |-> Datetime(year, m.vals[1], m.vals[2], m.vals[3],
                             m.vals[4], m.vals[5], 0)]

\* datetime.strptime(s, "%Y%m%d%H%M%S"): a datetime, or ValueError when the
\* text does not match.
strptime(s) ==
    IF Len(s) >= 4 /\ \A k \in 1..4 : s[k] \in Digits
    THEN DatetimeOfMatch(s, IntOf(Slice(s, 1, 4)), MatchFields(s, 5, 1))
    ELSE [ok |-> FALSE, exc |-> "ValueError"]

\* timedelta(days, seconds, microseconds), normalised as the constructor does.
timedelta(d, s, us) ==
    LET s1 == s + us \div 1000000
    IN [days |-> d + s1 \div 86400, seconds |-> s1 % 86400,
        microseconds |-> us % 1000000]

\* datetime.__sub__
DatetimeSub(a, b) ==
    timedelta(ToOrdinal(a) - ToOrdinal(b),
              (a.hour * 3600 + a.minute * 60 + a.second)
                - (b.hour * 3600 + b.minute * 60 + b.second),
              a.microsecond - b.microsecond)

\* timedelta.__gt__: the comparison of (days, seconds, microseconds).
TimedeltaGt(x, y) ==
    \/ x.days > y.days
    \/ x.days = y.days /\ x.seconds > y.seconds
    \/ x.days = y.days /\ x.seconds = y.seconds
       /\ x.microseconds > y.microseconds

(***************************************************************************)
(* The string literals of the program.                                     *)
(***************************************************************************)
KeyVersion      == <<"V", "e", "r", "s", "i", "o", "n">>
KeyPackage      == <<"P", "a", "c", "k", "a", "g", "e">>
KeyGeckoVersion == <<"G", "e", "c", "k", "o", "-", "V", "e", "r", "s", "i", "o", "n">>
KeyBuildID      == <<"B", "u", "i", "l", "d", "-", "I", "D">>
KeyMozBuildDate == <<"M", "o", "z", "-", "B", "u", "i", "l", "d", "-", "D", "a", "t", "e">>
KeyBuildNumber  == <<"B", "u", "i", "l", "d", "-", "N", "u", "m", "b", "e", "r">>
KeyArchitectures == <<"A", "r", "c", "h", "i", "t", "e", "c", "t", "u", "r", "e", "s">>
KeyBuild        == <<"b", "u", "i", "l", "d">>
KeyA1           == <<"a", "1">>
KeyEsr          == <<"e", "s", "r">>
KeySuite        == <<"S", "u", "i", "t", "e">>
ValMozilla      == <<"m", "o", "z", "i", "l", "l", "a">>
KeyProject      == <<"G", "O", "O", "G", "L", "E", "_", "C", "L", "O", "U", "D", "_", "P", "R", "O", "J", "E", "C", "T">>
ValProject      == <<"p">>
ValRegion       == <<"u", "s">>
ValRepository   == <<"m", "o", "z", "i", "l", "l", "a">>
PathProjects    == <<"p", "r", "o", "j", "e", "c", "t", "s", "/">>
PathLocations   == <<"/", "l", "o", "c", "a", "t", "i", "o", "n", "s", "/">>
PathRepositories == <<"/", "r", "e", "p", "o", "s", "i", "t", "o", "r", "i", "e", "s", "/">>
PathPackages    == <<"/", "p", "a", "c", "k", "a", "g", "e", "s", "/">>
PathVersions    == <<"/", "v", "e", "r", "s", "i", "o", "n", "s", "/">>
SepColon        == <<":", " ">>
SepTilde        == <<"~">>
SepNewline      == <<"\n">>
SepBlankLine    == <<"\n", "\n">>

(***************************************************************************)
(* GeckoVersion.parse (mozilla_version), for the version forms the APT     *)
(* index carries: <major>.<minor>[.<patch>] followed by nothing, "a1"      *)
(* (nightly), "b<n>" (beta) or "esr". Any other text is rejected with      *)
(* PatternNotMatchedError. is_nightly is the "a1" suffix.                  *)
(***************************************************************************)
\* The length of the run of digits of s that starts at position i.
RECURSIVE DigitRun(_, _)
DigitRun(s, i) ==
    IF i <= Len(s) /\ s[i] \in Digits THEN 1 + DigitRun(s, i + 1) ELSE 0

\* The version whose major number ends at e1, whose minor number ends at
\* e2, whose patch number (if has_patch) ends before the suffix rest.
GeckoVersionOf(s, e1, e2, has_patch, rest) ==
    IF \/ rest = <<>>
       \/ rest = KeyEsr
       \/ ~has_patch /\ rest = KeyA1
       \/ ~has_patch /\ Len(rest) >= 2 /\ rest[1] = "b"
            /\ AllDigits(Tail(rest))
    THEN [ok |-> TRUE,
          value |-> [type         |-> "GeckoVersion",
                     major_number |-> IntOf(Slice(s, 1, e1)),
                     minor_number |-> IntOf(Slice(s, e1 + 2, e2)),
                     has_patch    |-> has_patch,
                     is_nightly   |-> rest = KeyA1,
                     is_beta      |-> rest # <<>> /\ rest[1] = "b",
                     is_esr       |-> rest = KeyEsr]]
    ELSE [ok |-> FALSE, exc |-> "PatternNotMatchedError"]

\* n3 is the number of digits of the patch number, 0 without one.
GeckoAfterPatch(s, e1, e2, n3) ==
    GeckoVersionOf(s, e1, e2, n3 > 0,
                   Slice(s, (IF n3 > 0 THEN e2 + 1 + n3 ELSE e2) + 1, Len(s)))

\* The minor number ends at e2.
GeckoAfterMinor(s, e1, e2) ==
    GeckoAfterPatch(s, e1, e2,
                    IF e2 + 1 <= Len(s) /\ s[e2 + 1] = "."
                    THEN DigitRun(s, e2 + 2) ELSE 0)

\* n2 is the number of digits after the first dot.
GeckoAfterDot(s, e1, n2) ==
    IF n2 = 0 THEN [ok |-> FALSE, exc |-> "PatternNotMatchedError"]
    ELSE GeckoAfterMinor(s, e1, e1 + 1 + n2)

\* The major number is the first e1 characters.
GeckoAfterMajor(s, e1) ==
    IF e1 > 0 /\ e1 + 1 <= Len(s) /\ s[e1 + 1] = "."
    THEN GeckoAfterDot(s, e1, DigitRun(s, e1 + 2))
    ELSE [ok |-> FALSE, exc |-> "PatternNotMatchedError"]

GeckoVersionParse(s) == GeckoAfterMajor(s, DigitRun(s, 1))

(***************************************************************************)
(* parse_key_value_block: one control block to a dict. A dict is a         *)
(* function from keys (sequences of characters) to values (str, datetime   *)
(* or GeckoVersion); item assignment overrides.                            *)
(***************************************************************************)
SetItem(package, key, value) == (key :> value) @@ package

\* Lines 78-81: the nightly's build id and build date.
StoreNightly(package, postfix, date) ==
    IF ~date.ok THEN [ok |-> FALSE, exc |-> date.exc]
    ELSE [ok |-> TRUE,
          package |-> SetItem(SetItem(package, KeyBuildID, str(postfix)),
                              KeyMozBuildDate, date.value)]

\* Lines 76-83: the parsed version gv is stored, then what the postfix
\* gives for its channel.
StoreGeckoVersion(package, gv, postfix) ==
    IF ~gv.ok THEN [ok |-> FALSE, exc |-> gv.exc]
    ELSE IF gv.value.is_nightly
    THEN StoreNightly(SetItem(package, KeyGeckoVersion, gv.value), postfix,
                      strptime(postfix))
    ELSE [ok |-> TRUE,
          package |->
            SetItem(SetItem(package, KeyGeckoVersion, gv.value),
                    KeyBuildNumber,
                    str(Slice(postfix, Len(KeyBuild) + 1, Len(postfix))))]

\* Line 75: version, postfix = value.split("~")
ParseVersion(package, parts) ==
    IF Len(parts) # 2 THEN [ok |-> FALSE, exc |-> "ValueError"]
    ELSE StoreGeckoVersion(package, GeckoVersionParse(parts[1]), parts[2])

\* Lines 73-74: the field is stored under the stripped key; the key as it
\* was read decides whether the value is a version.
StoreField(package, key, value) ==
    IF key # KeyVersion
    THEN [ok |-> TRUE,
          package |-> SetItem(package, Strip(key), str(Strip(value)))]
    ELSE ParseVersion(SetItem(package, Strip(key), str(Strip(value))),
                      Split(value, SepTilde, -1))

\* Line 72: key, value = line.split(": ", 1)
ParseKeyValue(package, kv) ==
    IF Len(kv) # 2 THEN [ok |-> FALSE, exc |-> "ValueError"]
    ELSE StoreField(package, kv[1], kv[2])

\* Lines 71-83, the body of the loop for one line of the block: the dict
\* after the line, or the exception the line raises.
ParseLine(package, line) ==
    IF line = <<>> THEN [ok |-> TRUE, package |-> package]
    ELSE ParseKeyValue(package, Split(line, SepColon, 1))

\* Line 70: the loop over the lines.
RECURSIVE ParseLines(_, _)
RECURSIVE ParseNextLines(_, _)
ParseNextLines(r, lines) ==
    IF r.ok THEN ParseLines(r.package, lines) ELSE r

ParseLines(package, lines) ==
    IF lines = <<>> THEN [ok |-> TRUE, package |-> package]
    ELSE ParseNextLines(ParseLine(package, Head(lines)), Tail(lines))

EmptyDict == [k \in {} |-> <<>>]

parse_key_value_block(block) ==
    ParseLines(EmptyDict, Split(block, SepNewline, -1))

(***************************************************************************)
(* The inputs of a run: the command line, the environment, the responses   *)
(* of the HTTP server and of the registry, and the clock.                  *)
(***************************************************************************)
\* Control blocks of a Packages file.
\* A nightly built 2024-01-01 00:00:00.
BlockNightlyA ==
    <<"P", "a", "c", "k", "a", "g", "e", ":", " ", "f", "i", "r",
      "e", "f", "o", "x", "-", "n", "i", "g", "h", "t", "l", "y",
      "\n", "V", "e", "r", "s", "i", "o", "n", ":", " ", "1",
      "2", "2", ".", "0", "a", "1", "~", "2", "0", "2", "4", "0",
      "1", "0", "1", "0", "0", "0", "0", "0", "0">>
\* The same nightly package, built one second earlier.
BlockNightlyB ==
    <<"P", "a", "c", "k", "a", "g", "e", ":", " ", "f", "i", "r",
      "e", "f", "o", "x", "-", "n", "i", "g", "h", "t", "l", "y",
      "\n", "V", "e", "r", "s", "i", "o", "n", ":", " ", "1",
      "2", "2", ".", "0", "a", "1", "~", "2", "0", "2", "3", "1",
      "2", "3", "1", "2", "3", "5", "9", "5", "9">>
\* A release.
BlockRelease ==
    <<"P", "a", "c", "k", "a", "g", "e", ":", " ", "f", "i", "r",
      "e", "f", "o", "x", "\n", "V", "e", "r", "s", "i", "o",
      "n", ":", " ", "1", "1", "5", ".", "0", "~", "b", "u", "i",
      "l", "d", "2">>
\* A block with two Version lines, a nightly one and then a release one.
BlockTwoVersions ==
    <<"P", "a", "c", "k", "a", "g", "e", ":", " ", "f", "i", "r",
      "e", "f", "o", "x", "\n", "V", "e", "r", "s", "i", "o",
      "n", ":", " ", "1", "2", "1", ".", "0", "a", "1", "~", "2",
      "0", "2", "3", "1", "2", "0", "1", "0", "0", "0", "0", "0",
      "0", "\n", "V", "e", "r", "s", "i", "o", "n", ":", " ",
      "1", "2", "1", ".", "0", "~", "b", "u", "i", "l", "d", "1">>
\* A nightly whose postfix is not numeric.
BlockMalformed ==
    <<"P", "a", "c", "k", "a", "g", "e", ":", " ", "f", "i", "r",
      "e", "f", "o", "x", "-", "n", "i", "g", "h", "t", "l", "y",
      "\n", "V", "e", "r", "s", "i", "o", "n", ":", " ", "1",
      "2", "2", ".", "0", "a", "1", "~", "2", "0", "2", "4", "0",
      "1", "0", "1", "0", "0", "0", "0", "0", "x">>
\* A block without a Version line.
BlockNoVersion ==
    <<"P", "a", "c", "k", "a", "g", "e", ":", " ", "f", "i", "r",
      "e", "f", "o", "x", "-", "n", "i", "g", "h", "t", "l", "y",
      "\n", "A", "r", "c", "h", "i", "t", "e", "c", "t", "u",
      "r", "e", ":", " ", "a", "m", "d", "6", "4">>

\* A nightly whose Package value ends with a form feed and whose build id
\* ends with a fullwidth zero: built 2023-12-01 00:00:00.
BlockWideDigit ==
    <<"P", "a", "c", "k", "a", "g", "e", ":", " ", "f", "i", "r",
      "e", "f", "o", "x", "-", "n", "i", "g", "h", "t", "l", "y",
      "\f", "\n", "V", "e", "r", "s", "i", "o", "n", ":", " ",
      "1", "2", "1", ".", "0", "a", "1", "~", "2", "0", "2", "3",
      "1", "2", "0", "1", "0", "0", "0", "0", "0", "U+FF10">>
\* A nightly with a later line that stores a str under Moz-Build-Date.
BlockDateOverwritten ==
    <<"P", "a", "c", "k", "a", "g", "e", ":", " ", "f", "i", "r",
      "e", "f", "o", "x", "-", "n", "i", "g", "h", "t", "l", "y",
      "\n", "V", "e", "r", "s", "i", "o", "n", ":", " ", "1", "2",
      "2", ".", "0", "a", "1", "~", "2", "0", "2", "4", "0", "1",
      "0", "1", "0", "0", "0", "0", "0", "0", "\n", "M", "o", "z",
      "-", "B", "u", "i", "l", "d", "-", "D", "a", "t", "e", ":",
      " ", "x">>
\* A nightly with a later line that stores a str under Gecko-Version.
BlockGeckoOverwritten ==
    <<"P", "a", "c", "k", "a", "g", "e", ":", " ", "f", "i", "r",
      "e", "f", "o", "x", "-", "n", "i", "g", "h", "t", "l", "y",
      "\n", "V", "e", "r", "s", "i", "o", "n", ":", " ", "1", "2",
      "2", ".", "0", "a", "1", "~", "2", "0", "2", "4", "0", "1",
      "0", "1", "0", "0", "0", "0", "0", "0", "\n", "G", "e", "c",
      "k", "o", "-", "V", "e", "r", "s", "i", "o", "n", ":", " ",
      "x">>

JoinBlocks(blocks) ==
    LET RECURSIVE J(_)
        J(bs) == IF Len(bs) = 1 THEN bs[1]
                 ELSE bs[1] \o SepBlankLine \o J(Tail(bs))
    IN J(blocks)

\* The Packages documents a server may answer with.
DocNightlies      == JoinBlocks(<<BlockNightlyA, BlockNightlyB>>) \o SepNewline
DocMixed          ==
    JoinBlocks(<<BlockNightlyA, BlockRelease, BlockTwoVersions,
                 BlockWideDigit>>) \o SepNewline
DocMalformed      == JoinBlocks(<<BlockNightlyA, BlockMalformed>>) \o SepNewline
DocMissingVersion == JoinBlocks(<<BlockNoVersion, BlockNightlyA>>) \o SepNewline
DocTrailingBlank  == BlockNightlyA \o SepBlankLine
DocDateOverwritten ==
    JoinBlocks(<<BlockNightlyB, BlockDateOverwritten>>) \o SepNewline
DocGeckoOverwritten ==
    JoinBlocks(<<BlockNightlyB, BlockGeckoOverwritten>>) \o SepNewline
Docs ==
    {DocNightlies, DocMixed, DocMalformed, DocMissingVersion, DocTrailingBlank,
     DocDateOverwritten, DocGeckoOverwritten}

\* The HTTP statuses of a response that is not a success.
FailureStatuses == {404, 503}

\* The statuses a Packages request may be answered with.
PackagesStatuses == {200} \cup FailureStatuses

\* The architectures a Release file may list, in the order it lists them.
ArchNames ==
    <<<<"a", "m", "d", "6", "4">>,
      <<"i", "3", "8", "6">>,
      <<"a", "r", "m", "6", "4">>>>

\* The most architectures a Release file lists.
MaxArchs == 2

RECURSIVE JoinWords(_)
JoinWords(ws) ==
    IF ws = <<>> THEN <<>>
    ELSE IF Len(ws) = 1 THEN ws[1]
    ELSE ws[1] \o <<" ">> \o JoinWords(Tail(ws))

\* A dict object.
dict(items) == [type |-> "dict", items |-> items]

\* The mappings of a Release document: one per number of architectures, one
\* without the Architectures key, and one whose Architectures is a number.
ReleaseMappings ==
    {(KeyArchitectures :> str(JoinWords(SubSeq(ArchNames, 1, n))))
        @@ (KeySuite :> str(ValMozilla)) : n \in 0..MaxArchs}
      \cup {(KeySuite :> str(ValMozilla)),
            (KeyArchitectures :> int(64)) @@ (KeySuite :> str(ValMozilla))}

\* What yaml.safe_load makes of the text of a Release response: a mapping,
\* None for an empty document, a str for a scalar, or the YAMLError it
\* raises for a text that is not YAML.
SafeLoadResults ==
    {dict(m) : m \in ReleaseMappings}
      \cup {None, str(ValMozilla), [type |-> "YAMLError"]}

\* The responses to the Release request; content is the text as safe_load
\* reads it.
ReleaseResponses ==
    [status : {200}, content : SafeLoadResults]
      \cup [status : FailureStatuses, content : {None}]

\* Line 95, parsed_release_data["Architectures"].split(): the architectures,
\* or the exception of the subscript (TypeError on what is no mapping,
\* KeyError) or of the call of split on what is no str.
ReadArchitectures(parsed_release_data) ==
    IF parsed_release_data.type # "dict"
    THEN [ok |-> FALSE, exc |-> "TypeError"]
    ELSE IF KeyArchitectures \notin DOMAIN parsed_release_data.items
    THEN [ok |-> FALSE, exc |-> "KeyError"]
    ELSE IF parsed_release_data.items[KeyArchitectures].type # "str"
    THEN [ok |-> FALSE, exc |-> "AttributeError"]
    ELSE [ok |-> TRUE,
          architectures |->
            SplitWhitespace(parsed_release_data.items[KeyArchitectures].value)]

\* The values given to --retention-days (type=int).
RetentionDays == {-1, 0, 30, 1000000000}

\* argparse's namespaces: every combination of the supported and one
\* unsupported value of product, channel and format.
ArgsChoices ==
    [product : {"firefox", "thunderbird"}, channel : {"nightly", "release"},
     format : {"deb", "rpm"},
     retention_days : {None} \cup {int(n) : n \in RetentionDays},
     dry_run : BOOLEAN]

\* os.environ: GOOGLE_CLOUD_PROJECT set, or not.
Environs == {(KeyProject :> ValProject), EmptyDict}

\* The values datetime.now() may return.
Nows ==
    {Datetime(2023, 12, 31, 0, 0, 0, 0),
     Datetime(2024, 1, 1, 0, 0, 0, 0),
     Datetime(2024, 1, 30, 23, 59, 59, 999999),
     Datetime(2024, 1, 31, 0, 0, 0, 0),
     Datetime(2024, 1, 31, 0, 0, 0, 1),
     Datetime(2024, 3, 15, 12, 0, 0, 0)}

(***************************************************************************)
(* batched: the generator's islice, and the list of the batches it yields. *)
(***************************************************************************)
\* islice losing the item that follows the batch.
islice_dropping(it, n) ==
    LET k == IF n < Len(it) THEN n ELSE Len(it)
    IN [batch |-> Slice(it, 1, k), rest |-> Slice(it, k + 2, Len(it))]

\* tuple(islice(it, n)): the next n items of the iterator and what remains.
islice(it, n) ==
    LET k == IF n < Len(it) THEN n ELSE Len(it)
    IN [batch |-> Slice(it, 1, k), rest |-> Slice(it, k + 1, Len(it))]

\* list(batched(iterable, n)), or the ValueError of n < 1.
RECURSIVE BatchesOf(_, _)
BatchesOf(it, n) ==
    LET s == islice(it, n) IN
    IF s.batch = <<>> THEN <<>> ELSE <<s.batch>> \o BatchesOf(s.rest, n)

batched(iterable, n) ==
    IF n < 1 THEN [ok |-> FALSE, exc |-> "ValueError"]
    ELSE [ok |-> TRUE, batches |-> BatchesOf(iterable, n)]

\* The batch size delete_nightly_versions passes to batched.
BatchSize == 10000

(***************************************************************************)
(* The steps of delete_nightly_versions between two awaits, as functions   *)
(* of the run's inputs.                                                    *)
(***************************************************************************)
\* The result of a comprehension whose first item gave r and whose other
\* items gave rest: the first exception raised, or all the packages.
ConsParsed(r, rest) ==
    IF ~rest.ok THEN rest
    ELSE [ok |-> TRUE, packages |-> <<r.package>> \o rest.packages]

\* Lines 105-108 for one fetched document: every block of the text is
\* parsed, in order; the first block that raises ends the comprehension.
RECURSIVE ParseBlocks(_)
RECURSIVE ParseNextBlocks(_, _)
ParseNextBlocks(r, blocks) ==
    IF ~r.ok THEN r ELSE ConsParsed(r, ParseBlocks(blocks))

ParseBlocks(blocks) ==
    IF blocks = <<>> THEN [ok |-> TRUE, packages |-> <<>>]
    ELSE ParseNextBlocks(parse_key_value_block(Head(blocks)), Tail(blocks))

\* Line 109: package_data is extended with the records of a document once
\* all its blocks are parsed, so that when a later document raises it holds
\* the records of the documents before it.
ExtendParsed(r, rest) ==
    [ok |-> rest.ok, exc |-> rest.exc,
     packages |-> r.packages \o rest.packages]

\* Lines 101-109: the documents in the order of the architectures.
RECURSIVE ParseResults(_)
RECURSIVE ParseNextResults(_, _)
ParseNextResults(r, results) ==
    IF ~r.ok THEN [ok |-> FALSE, exc |-> r.exc, packages |-> <<>>]
    ELSE ExtendParsed(r, ParseResults(results))

ParseResults(results) ==
    IF results = <<>> THEN [ok |-> TRUE, exc |-> "none", packages |-> <<>>]
    ELSE ParseNextResults(
           ParseBlocks(Split(Head(results), SepBlankLine, -1)),
           Tail(results))

\* The nightly filter testing for a build date instead of the channel.
HasBuildDate(package) == KeyMozBuildDate \in DOMAIN package

\* Line 111: the test of the nightly filter.
IsNightlyPackage(package) == package[KeyGeckoVersion].is_nightly

\* The exception the test of line 111 raises on a package, "none" if none:
\* the record has no Gecko-Version, or a later line of the block stored a
\* str under that key.
NightlyTestError(package) ==
    IF KeyGeckoVersion \notin DOMAIN package THEN "KeyError"
    ELSE IF package[KeyGeckoVersion].type # "GeckoVersion"
    THEN "AttributeError"
    ELSE "none"

\* The exception a comprehension ends with, given what each item raises:
\* that of the first item that raises.
FirstError(errors) ==
    IF \A i \in 1..Len(errors) : errors[i] = "none" THEN "none"
    ELSE errors[CHOOSE i \in 1..Len(errors) :
                  /\ errors[i] # "none"
                  /\ \A j \in 1..(i - 1) : errors[j] = "none"]

NightlyFilterError(data) ==
    FirstError([i \in 1..Len(data) |-> NightlyTestError(data[i])])

\* The largest magnitude of the days of a timedelta.
MaxDeltaDays == 999999999

\* The exception the test of line 117 raises on a package, "none" if none:
\* the subtraction comes first (no Moz-Build-Date, or a str stored under
\* that key by a later line), then timedelta(days=retention_days).
ExpiryTestError(package, retention_days) ==
    IF KeyMozBuildDate \notin DOMAIN package THEN "KeyError"
    ELSE IF package[KeyMozBuildDate].type # "datetime" THEN "TypeError"
    ELSE IF retention_days > MaxDeltaDays \/ retention_days < -MaxDeltaDays
    THEN "OverflowError"
    ELSE "none"

ExpiryFilterError(nightly, retention_days) ==
    FirstError([i \in 1..Len(nightly) |->
                  ExpiryTestError(nightly[i], retention_days)])

\* The expiry test with >= in place of >.
IsExpiredInclusive(package, now_, retention_days) ==
    ~TimedeltaGt(timedelta(retention_days, 0, 0),
                 DatetimeSub(now_, package[KeyMozBuildDate]))

\* Line 117: the test of the expiry filter.
IsExpired(package, now_, retention_days) ==
    TimedeltaGt(DatetimeSub(now_, package[KeyMozBuildDate]),
                timedelta(retention_days, 0, 0))

\* Line 123: the resource name of a package version.
TargetName(package, environ_) ==
    PathProjects \o environ_[KeyProject] \o PathLocations \o ValRegion
      \o PathRepositories \o ValRepository \o PathPackages
      \o package[KeyPackage].value \o PathVersions
      \o package[KeyVersion].value

\* Lines 122-125: the targets, in the order of the expired packages.
Targets(expired, environ_) ==
    [i \in 1..Len(expired) |-> TargetName(expired[i], environ_)]

\* Lines 101-126, run when gather has returned: the locals assigned, and
\* the exception that ended the step, if one did ("none" otherwise).
NoSelection ==
    [package_data |-> <<>>, nightly_package_data |-> <<>>,
     expired_nightly_packages |-> <<>>, targets |-> <<>>,
     now_read |-> FALSE, found |-> FALSE, exc |-> "none"]

\* Lines 122-126: the targets are built and get_cloud_repo is called; it
\* builds the parent name before its await.
BuildTargets(s, expired, environ_) ==
    IF /\ expired # <<>>
       /\ \/ KeyProject \notin DOMAIN environ_
          \/ \E i \in 1..Len(expired) :
                {KeyPackage, KeyVersion} \ DOMAIN expired[i] # {}
    THEN [s EXCEPT !.expired_nightly_packages = expired, !.found = TRUE,
                   !.exc = "KeyError"]
    ELSE IF KeyProject \notin DOMAIN environ_
    THEN [s EXCEPT !.expired_nightly_packages = expired, !.found = TRUE,
                   !.exc = "KeyError"]
    ELSE [s EXCEPT !.expired_nightly_packages = expired, !.found = TRUE,
                   !.targets = Targets(expired, environ_)]

\* Lines 113-121: now is read, the expired nightlies are selected and their
\* number is logged.
SelectFromNightly(s, nightly, args_, environ_, now_) ==
    IF ExpiryFilterError(nightly, args_.retention_days.value) # "none"
    THEN [s EXCEPT !.nightly_package_data = nightly, !.now_read = TRUE,
                   !.exc = ExpiryFilterError(nightly,
                                             args_.retention_days.value)]
    ELSE LET Old(p) == IsExpired(p, now_, args_.retention_days.value) IN
         BuildTargets([s EXCEPT !.nightly_package_data = nightly,
                                !.now_read = TRUE],
                      SelectSeq(nightly, Old), environ_)

\* Lines 110-112: the nightly filter.
SelectFromParsed(data, args_, environ_, now_) ==
    IF NightlyFilterError(data) # "none"
    THEN [NoSelection EXCEPT !.package_data = data,
                             !.exc = NightlyFilterError(data)]
    ELSE SelectFromNightly([NoSelection EXCEPT !.package_data = data],
                           SelectSeq(data, IsNightlyPackage),
                           args_, environ_, now_)

AfterParse(parsed, args_, environ_, now_) ==
    IF ~parsed.ok
    THEN [NoSelection EXCEPT !.package_data = parsed.packages,
                             !.exc = parsed.exc]
    ELSE SelectFromParsed(parsed.packages, args_, environ_, now_)

SelectExpired(results, args_, environ_, now_) ==
    AfterParse(ParseResults(results), args_, environ_, now_)

\* batch_delete_versions with its test of dry_run inverted.
batch_delete_versions_inverted(versions, dry_run, outcome) ==
    IF dry_run
    THEN [requested |-> TRUE,
          exc |-> IF outcome = "ok" THEN "none" ELSE outcome,
          log |-> <<>>]
    ELSE [requested |-> FALSE, exc |-> "none",
          log |-> <<[level |-> "INFO", event |-> "dry_run_noop",
                     count |-> Len(versions)]>>]

\* Lines 21-33, batch_delete_versions(versions, dry_run): whether the
\* request reaches the registry client, the exception the call ends with
\* (outcome is how the registry answers a request it receives), and the
\* line logged.
batch_delete_versions(versions, dry_run, outcome) ==
    IF ~dry_run
    THEN [requested |-> TRUE,
          exc |-> IF outcome = "ok" THEN "none" ELSE outcome,
          log |-> <<>>]
    ELSE [requested |-> FALSE, exc |-> "none",
          log |-> <<[level |-> "INFO", event |-> "dry_run_noop",
                     count |-> Len(versions)]>>]

\* Line 130: the dry_run argument delete_nightly_versions passes.
DryRunArgument(args_) == TRUE

\* Line 61 of fetch_url: the status that is not an error.
HttpOk == 200

\* Lines 58-65, fetch_url, given the response to its request: the text of
\* a 200 response, or the exception raised for any other status.
fetch_url(response) ==
    IF response.status # HttpOk THEN [ok |-> FALSE, exc |-> "Exception"]
    ELSE [ok |-> TRUE, content |-> response.content]

\* gather with return_exceptions: the failed fetches are left out instead of
\* raising.
gather_skipping_failures(fetches) ==
    IF \E i \in 1..Len(fetches) : fetches[i].state \in {"get", "text"}
    THEN [state |-> "pending"]
    ELSE [state |-> "returned",
          contents |->
            LET Ok(f) == f.state = "returned"
                ok == SelectSeq(fetches, Ok)
            IN [i \in 1..Len(ok) |-> ok[i].content]]

\* Line 100, asyncio.gather over the fetches: it raises as soon as one fetch
\* has raised, and returns the contents, in the order of the fetches, once
\* all have returned. A fetch is suspended in session.get ("get") or in
\* response.text() ("text"), or it has raised, returned or been cancelled.
gather(fetches) ==
    IF \E i \in 1..Len(fetches) : fetches[i].state = "raised"
    THEN [state |-> "raised", exc |-> "Exception"]
    ELSE IF \E i \in 1..Len(fetches) : fetches[i].state \in {"get", "text"}
    THEN [state |-> "pending"]
    ELSE [state |-> "returned",
          contents |-> [i \in 1..Len(fetches) |-> fetches[i].content]]

\* How the registry answers a delete request or get_repository.
RegistryOutcomes == {"ok", "GoogleAPICallError"}

(***************************************************************************)
(* The state of a run.                                                     *)
(***************************************************************************)
VARIABLES
    pc,                       \* where the run is
    args,                     \* the parsed command line
    environ,                  \* os.environ
    error,                    \* the exception that ended the run, or "none"
    log,                      \* the lines logged
    release_gets,             \* session.get calls made for Release
    packages_gets,            \* session.get calls made, per architecture
    release,                  \* the response to the Release request
    architectures,
    package_data_results,     \* per architecture: the fetch and its response
    now,
    package_data,
    nightly_package_data,
    expired_nightly_packages,
    targets,
    batches,                  \* the batches the generator has yet to yield
    calls,                    \* the calls of batch_delete_versions
    client_requests,          \* the delete requests the client received
    deleted,                  \* the versions the registry deleted
    b_pc, b_iterable, b_n, b_it, b_out   \* a batched generator on its own

run_vars ==
    <<pc, args, environ, error, log, release_gets, packages_gets, release,
      architectures, package_data_results, now, package_data,
      nightly_package_data, expired_nightly_packages, targets, batches,
      calls, client_requests, deleted>>

batched_vars == <<b_pc, b_iterable, b_n, b_it, b_out>>

vars == <<run_vars, batched_vars>>

NoArgs ==
    [product |-> "", channel |-> "", format |-> "", retention_days |-> None,
     dry_run |-> FALSE]

Pending == [state |-> "get", status |-> 0, content |-> <<>>]

InitRun ==
    /\ pc = "main"
    /\ args = NoArgs
    /\ environ = EmptyDict
    /\ error = "none"
    /\ log = <<>>
    /\ release_gets = 0
    /\ packages_gets = <<>>
    /\ release = [status |-> 0, content |-> None]
    /\ architectures = <<>>
    /\ package_data_results = <<>>
    /\ now = Datetime(1, 1, 1, 0, 0, 0, 0)
    /\ package_data = <<>>
    /\ nightly_package_data = <<>>
    /\ expired_nightly_packages = <<>>
    /\ targets = <<>>
    /\ batches = <<>>
    /\ calls = <<>>
    /\ client_requests = <<>>
    /\ deleted = {}

IdleBatched ==
    /\ b_pc = "idle"
    /\ b_iterable = <<>>
    /\ b_n = 0
    /\ b_it = <<>>
    /\ b_out = <<>>

Init == InitRun /\ IdleBatched

Info(event) == [level |-> "INFO", event |-> event]

\* Lines 131-132: the exception is caught and logged, and the run is over.
Caught(exc) ==
    /\ pc' = "done"
    /\ error' = exc
    /\ log' = Append(log, [level |-> "ERROR", event |-> exc])

(***************************************************************************)
(* main, lines 135-207: the arguments are checked and the run is started;  *)
(* it runs to its first await, the request for Release (line 92).          *)
(***************************************************************************)
ArgsError(a) ==
    IF a.product # "firefox" THEN "ValueError"
    ELSE IF a.format # "deb" THEN "ValueError"
    ELSE IF a.channel # "nightly" THEN "ValueError"
    ELSE IF a.retention_days = None THEN "ValueError"
    ELSE "none"

main ==
    /\ pc = "main"
    /\ \E e \in Environs :
         /\ environ' = e
         /\ \/ \* Line 188: argparse rejects the command line (an option
               \* that is required is missing, --retention-days is no
               \* integer) and exits.
               /\ pc' = "exited"
               /\ error' = "SystemExit"
               /\ UNCHANGED <<args, log, release_gets>>
            \/ \E a \in ArgsChoices :
               /\ args' = a
               /\ log' = log \o (IF a.dry_run
                                 THEN <<Info("dry_run_enabled")>>
                                 ELSE <<>>) \o <<Info("args")>>
               /\ IF ArgsError(a) # "none"
                  THEN /\ pc' = "raised"
                       /\ error' = ArgsError(a)
                       /\ release_gets' = release_gets
                  ELSE /\ pc' = "await_release"
                       /\ error' = error
                       /\ release_gets' = release_gets + 1
    /\ UNCHANGED <<packages_gets, release, architectures,
                   package_data_results, now, package_data,
                   nightly_package_data, expired_nightly_packages, targets,
                   batches, calls, client_requests, deleted, batched_vars>>

(***************************************************************************)
(* Lines 92-100: the Release response arrives (nothing else runs between   *)
(* its status and its text, which are one step); on success the            *)
(* architectures are read and one Packages request per architecture is     *)
(* made (gather).                                                          *)
(***************************************************************************)
ReleaseResponse ==
    /\ pc = "await_release"
    /\ \E r \in ReleaseResponses :
         /\ release' = r
         /\ IF ~fetch_url(r).ok
            THEN /\ Caught(fetch_url(r).exc)
                 /\ UNCHANGED <<architectures, package_data_results,
                                packages_gets>>
            ELSE IF fetch_url(r).content.type = "YAMLError"
            THEN /\ Caught("YAMLError")
                 /\ UNCHANGED <<architectures, package_data_results,
                                packages_gets>>
            ELSE \E a \in {ReadArchitectures(fetch_url(r).content)} :
                 IF ~a.ok
                 THEN /\ pc' = "done"
                      /\ error' = a.exc
                      /\ log' = log \o <<Info("parsed_release_data"),
                                         [level |-> "ERROR", event |-> a.exc]>>
                      /\ UNCHANGED <<architectures, package_data_results,
                                     packages_gets>>
                 ELSE /\ architectures' = a.architectures
                      /\ package_data_results' =
                           [i \in 1..Len(a.architectures) |-> Pending]
                      /\ packages_gets' =
                           [i \in 1..Len(a.architectures) |-> 1]
                      /\ pc' = "await_gather"
                      /\ error' = error
                      /\ log' = Append(log, Info("parsed_release_data"))
    /\ UNCHANGED <<args, environ, release_gets, now, package_data,
                   nightly_package_data, expired_nightly_packages, targets,
                   batches, calls, client_requests, deleted, batched_vars>>

(***************************************************************************)
(* Lines 58-62 under gather (line 100): one architecture's session.get     *)
(* returns, in any order. A status that is not 200 raises in fetch_url,    *)
(* which ends that fetch; after a 200 the fetch awaits the text of the     *)
(* response. The fetches are tasks of their own, which gather does not     *)
(* cancel: they go on while gather has yet to raise in                     *)
(* delete_nightly_versions, and after the run is over until asyncio.run    *)
(* cancels them.                                                           *)
(***************************************************************************)
PackagesStatus ==
    /\ pc \in {"await_gather", "done"}
    /\ \E i \in 1..Len(package_data_results), status \in PackagesStatuses :
         /\ package_data_results[i].state = "get"
         /\ package_data_results' =
              [package_data_results EXCEPT
                 ![i] = [state |-> IF fetch_url([status |-> status,
                                                 content |-> <<>>]).ok
                                   THEN "text" ELSE "raised",
                         status |-> status, content |-> <<>>]]
    /\ UNCHANGED <<pc, error, log, args, environ, release_gets,
                   packages_gets, release, architectures, now, package_data,
                   nightly_package_data, expired_nightly_packages, targets,
                   batches, calls, client_requests, deleted, batched_vars>>

(***************************************************************************)
(* Lines 64-65 under gather: the text of one architecture's response       *)
(* arrives and its fetch_url returns it.                                   *)
(***************************************************************************)
PackagesText ==
    /\ pc \in {"await_gather", "done"}
    /\ \E i \in 1..Len(package_data_results), content \in Docs :
         /\ package_data_results[i].state = "text"
         /\ package_data_results' =
              [package_data_results EXCEPT
                 ![i] = [state |-> "returned",
                         status |-> package_data_results[i].status,
                         content |->
                           fetch_url([status |-> package_data_results[i].status,
                                      content |-> content]).content]]
    /\ UNCHANGED <<pc, error, log, args, environ, release_gets,
                   packages_gets, release, architectures, now, package_data,
                   nightly_package_data, expired_nightly_packages, targets,
                   batches, calls, client_requests, deleted, batched_vars>>

(***************************************************************************)
(* Lines 100 and 131-132: a fetch has raised and delete_nightly_versions   *)
(* is resumed with its exception, which is caught and logged; the run is   *)
(* over. The fetches that have not ended are still tasks of the loop.      *)
(***************************************************************************)
GatherRaises ==
    /\ pc = "await_gather"
    /\ gather(package_data_results).state = "raised"
    /\ Caught(gather(package_data_results).exc)
    /\ UNCHANGED <<args, environ, release_gets, packages_gets, release,
                   architectures, package_data_results, now, package_data,
                   nightly_package_data, expired_nightly_packages, targets,
                   batches, calls, client_requests, deleted, batched_vars>>

(***************************************************************************)
(* Line 205: delete_nightly_versions has returned and asyncio.run cancels  *)
(* the tasks that have not ended, before it closes the loop.               *)
(***************************************************************************)
CancelFetches ==
    /\ pc = "done"
    /\ \E i \in 1..Len(package_data_results) :
          package_data_results[i].state \in {"get", "text"}
    /\ package_data_results' =
         [i \in 1..Len(package_data_results) |->
            IF package_data_results[i].state \in {"get", "text"}
            THEN [package_data_results[i] EXCEPT !.state = "cancelled"]
            ELSE package_data_results[i]]
    /\ UNCHANGED <<pc, error, log, args, environ, release_gets,
                   packages_gets, release, architectures, now, package_data,
                   nightly_package_data, expired_nightly_packages, targets,
                   batches, calls, client_requests, deleted, batched_vars>>

(***************************************************************************)
(* Lines 100-126: gather returns once every response has arrived; the      *)
(* documents are parsed, the expired nightly versions selected and their   *)
(* targets built, up to the await of get_repository.                       *)
(***************************************************************************)
GatherReturns ==
    /\ pc = "await_gather"
    /\ gather(package_data_results).state = "returned"
    /\ \E n \in Nows :
         \E s \in {SelectExpired(gather(package_data_results).contents,
                                args, environ, n)} :
         /\ now' = IF s.now_read THEN n ELSE now
         /\ package_data' = s.package_data
         /\ nightly_package_data' = s.nightly_package_data
         /\ expired_nightly_packages' = s.expired_nightly_packages
         /\ targets' = s.targets
         /\ log' = log
              \o (IF s.found
                  THEN <<[level |-> "INFO", event |-> "found",
                          expired |-> Len(s.expired_nightly_packages),
                          kept |-> Len(s.nightly_package_data)
                                     - Len(s.expired_nightly_packages)]>>
                  ELSE <<>>)
              \o (IF s.exc # "none"
                  THEN <<[level |-> "ERROR", event |-> s.exc]>> ELSE <<>>)
         /\ error' = s.exc
         /\ pc' = IF s.exc # "none" THEN "done" ELSE "await_cloud_repo"
    /\ UNCHANGED <<args, environ, release_gets, packages_gets, release,
                   architectures, package_data_results, batches, calls,
                   client_requests, deleted, batched_vars>>

(***************************************************************************)
(* Lines 126-129: get_repository answers; the batches are made and the     *)
(* loop over them is entered.                                              *)
(***************************************************************************)
CloudRepoResponse ==
    /\ pc = "await_cloud_repo"
    /\ \E outcome \in RegistryOutcomes :
         IF outcome # "ok"
         THEN Caught(outcome) /\ UNCHANGED batches
         ELSE \E b \in {batched(targets, BatchSize)} :
              /\ batches' = b.batches
              /\ log' = Append(log, Info("cloud_repo"))
              /\ pc' = IF b.batches = <<>> THEN "done" ELSE "deleting"
              /\ error' = error
    /\ UNCHANGED <<args, environ, release_gets, packages_gets, release,
                   architectures, package_data_results, now, package_data,
                   nightly_package_data, expired_nightly_packages, targets,
                   calls, client_requests, deleted, batched_vars>>

(***************************************************************************)
(* Lines 129-130: one turn of the loop, batch_delete_versions on the next  *)
(* batch.                                                                  *)
(***************************************************************************)
BatchDelete ==
    /\ pc = "deleting"
    /\ batches # <<>>
    /\ \E outcome \in RegistryOutcomes :
         \E batch \in {Head(batches)}, dry \in {DryRunArgument(args)} :
         \E r \in {batch_delete_versions(batch, dry, outcome)} :
         /\ calls' = Append(calls, [versions |-> batch, dry_run |-> dry])
         /\ client_requests' =
              IF r.requested THEN Append(client_requests, [names |-> batch])
              ELSE client_requests
         /\ deleted' =
              IF r.requested /\ r.exc = "none"
              THEN deleted \cup {batch[i] : i \in 1..Len(batch)}
              ELSE deleted
         /\ batches' = Tail(batches)
         /\ IF r.exc # "none"
            THEN /\ pc' = "done"
                 /\ error' = r.exc
                 /\ log' = log \o r.log
                             \o <<[level |-> "ERROR", event |-> r.exc]>>
            ELSE /\ pc' = IF Tail(batches) = <<>> THEN "done" ELSE "deleting"
                 /\ error' = error
                 /\ log' = log \o r.log
    /\ UNCHANGED <<args, environ, release_gets, packages_gets, release,
                   architectures, package_data_results, now, package_data,
                   nightly_package_data, expired_nightly_packages, targets,
                   batched_vars>>

Next ==
    \/ main
    \/ ReleaseResponse
    \/ PackagesStatus
    \/ PackagesText
    \/ GatherRaises
    \/ CancelFetches
    \/ GatherReturns
    \/ CloudRepoResponse
    \/ BatchDelete

Spec == Init /\ [][Next]_vars

(***************************************************************************)
(* The properties of the run.                                              *)
(***************************************************************************)
\* The selection was made: the count of expired nightlies was logged.
Selected == \E i \in 1..Len(log) : log[i].event = "found"

\* The versions handed to batch_delete_versions so far, in order.
RECURSIVE Flatten(_)
Flatten(seqs) ==
    IF seqs = <<>> THEN <<>> ELSE Head(seqs) \o Flatten(Tail(seqs))

Submitted == Flatten([i \in 1..Len(calls) |-> calls[i].versions])

\* C1: in a run started with --dry-run no delete request reaches the registry
\* client, nothing is deleted, and every batch is handed over as a dry run.
C1_DryRunHasNoSideEffects ==
    args.dry_run =>
      /\ client_requests = <<>>
      /\ deleted = {}
      /\ \A i \in 1..Len(calls) : calls[i].dry_run

\* A dry run that has handed over a batch of expired targets and is over.
C1_Witness ==
    /\ args.dry_run
    /\ pc = "done" /\ error = "none"
    /\ calls # <<>> /\ calls[1].versions # <<>>

\* C2: every batch is submitted with the dry_run value the run was started
\* with, so a run without --dry-run sends a delete request for every batch.
C2_DryRunFlagGovernsSubmission ==
    /\ \A i \in 1..Len(calls) : calls[i].dry_run = args.dry_run
    /\ ~args.dry_run => Len(client_requests) = Len(calls)

\* The age of a build at now exceeds the retention, counted in seconds and
\* the microseconds of now (a build date has none).
AgeExceeds(package, retention_days) ==
    LET build   == package[KeyMozBuildDate]
        seconds == (ToOrdinal(now) - ToOrdinal(build)) * 86400
                     + (now.hour - build.hour) * 3600
                     + (now.minute - build.minute) * 60
                     + (now.second - build.second)
    IN \/ seconds > retention_days * 86400
       \/ seconds = retention_days * 86400 /\ now.microsecond > 0

AgeIsExactly(package, retention_days, extra_seconds) ==
    LET build == package[KeyMozBuildDate] IN
    /\ (ToOrdinal(now) - ToOrdinal(build)) * 86400
         + (now.hour - build.hour) * 3600
         + (now.minute - build.minute) * 60
         + (now.second - build.second)
       = retention_days * 86400 + extra_seconds
    /\ now.microsecond = 0

\* C3: once the selection is made, the expired nightlies are exactly the
\* nightlies whose age at the run's one now is strictly greater than
\* retention_days, in the order of the nightlies.
C3_ExpiryBoundary ==
    Selected =>
      LET Old(p) == AgeExceeds(p, args.retention_days.value) IN
      expired_nightly_packages = SelectSeq(nightly_package_data, Old)

\* A selection over a nightly that is exactly retention_days old, which is
\* retained, and one that is a second older, which is expired.
C3_Witness ==
    /\ Selected
    /\ \E i \in 1..Len(nightly_package_data) :
          /\ AgeIsExactly(nightly_package_data[i],
                          args.retention_days.value, 0)
          /\ \A j \in 1..Len(expired_nightly_packages) :
                expired_nightly_packages[j] # nightly_package_data[i]
    /\ \E j \in 1..Len(expired_nightly_packages) :
          AgeIsExactly(expired_nightly_packages[j],
                       args.retention_days.value, 1)

\* C4: every expired package is a nightly one, no record that is not nightly
\* is among them, the targets are the names of the expired packages, and
\* every version handed to batch_delete_versions is a target.
C4_OnlyNightliesAreTargets ==
    /\ \A i \in 1..Len(expired_nightly_packages) :
          expired_nightly_packages[i][KeyGeckoVersion].is_nightly
    /\ \A i \in 1..Len(package_data) :
          ~(/\ KeyGeckoVersion \in DOMAIN package_data[i]
            /\ package_data[i][KeyGeckoVersion].type = "GeckoVersion"
            /\ package_data[i][KeyGeckoVersion].is_nightly)
          => \A j \in 1..Len(expired_nightly_packages) :
                expired_nightly_packages[j] # package_data[i]
    /\ targets # <<>> =>
          targets = [i \in 1..Len(expired_nightly_packages) |->
                       TargetName(expired_nightly_packages[i], environ)]
    /\ \A i \in 1..Len(Submitted) :
          \E j \in 1..Len(targets) : targets[j] = Submitted[i]

\* A run that parsed a record which is not nightly and whose build date is
\* older than the retention, and that handed its targets over.
C4_Witness ==
    /\ pc = "done" /\ error = "none" /\ Submitted # <<>>
    /\ \E i \in 1..Len(package_data) :
          /\ package_data[i][KeyGeckoVersion].type = "GeckoVersion"
          /\ ~package_data[i][KeyGeckoVersion].is_nightly
          /\ KeyMozBuildDate \in DOMAIN package_data[i]
          /\ AgeExceeds(package_data[i], args.retention_days.value)

\* The well-formed blocks of the documents and their records.
Blocks(contents) ==
    Flatten([i \in 1..Len(contents) |-> Split(contents[i], SepBlankLine, -1)])

IsBlank(block) == Strip(block) = <<>>

IsWellFormed(block) ==
    /\ ~IsBlank(block)
    /\ parse_key_value_block(block).ok
    /\ KeyVersion \in DOMAIN parse_key_value_block(block).package

RecordsOf(blocks) ==
    [i \in 1..Len(blocks) |-> parse_key_value_block(blocks[i]).package]

\* Every fetch returned and the step after gather has run.
GatherReturned ==
    /\ pc \in {"await_cloud_repo", "deleting", "done"}
    /\ package_data_results # <<>>
    /\ gather(package_data_results).state = "returned"

\* C6: when the documents hold well-formed blocks and blocks that are
\* malformed or lack a Version (and no blank block), the selection is still
\* made, over the records of the well-formed blocks.
C6_MalformedBlockIsolated ==
    (/\ GatherReturned
     /\ KeyProject \in DOMAIN environ
     /\ \E b \in {Blocks(gather(package_data_results).contents)} :
          /\ \A i \in 1..Len(b) : ~IsBlank(b[i])
          /\ \E i \in 1..Len(b) : IsWellFormed(b[i])
          /\ \E i \in 1..Len(b) : ~IsWellFormed(b[i]))
    => /\ Selected
       /\ package_data =
            RecordsOf(SelectSeq(Blocks(gather(package_data_results).contents),
                                IsWellFormed))

\* A response that is not a success has arrived, for Release or for an
\* architecture's Packages.
FetchFailed ==
    \/ release.status \in FailureStatuses
    \/ \E i \in 1..Len(package_data_results) :
          /\ package_data_results[i].state = "raised"
          /\ package_data_results[i].status \in FailureStatuses

\* C7: once the Release fetch or one architecture's Packages fetch has
\* failed, the run does not go on: it is over at once after Release failed,
\* and after a Packages fetch failed it stays at gather until it is over;
\* it ends with the fetch's exception logged, nothing is parsed, no expired
\* set is selected and batch_delete_versions is never called.
C7_FetchFailureAbortsRun ==
    FetchFailed =>
      /\ pc \in {"await_gather", "done"}
      /\ release.status \in FailureStatuses => pc = "done"
      /\ pc = "done" =>
            /\ error = "Exception"
            /\ log[Len(log)] = [level |-> "ERROR", event |-> "Exception"]
      /\ ~Selected
      /\ package_data = <<>> /\ expired_nightly_packages = <<>>
      /\ targets = <<>> /\ batches = <<>>
      /\ calls = <<>> /\ client_requests = <<>>

\* One architecture's Packages arrived with expired nightlies in it,
\* another architecture's fetch failed, and the run is over.
C7_Witness ==
    /\ pc = "done" /\ error = "Exception"
    /\ \E i, j \in 1..Len(package_data_results) :
       /\ package_data_results[i].state = "returned"
       /\ package_data_results[i].status = HttpOk
       /\ package_data_results[i].content = DocNightlies
       /\ package_data_results[j].state = "raised"
       /\ package_data_results[j].status \in FailureStatuses

\* The statuses of a transient error.
TransientStatuses == {408, 429, 500, 502, 503, 504}

\* C8: a fetch that was answered with a transient status is attempted
\* again: the run has made a second request for it.
C8_TransientErrorsRetried ==
    /\ release.status \in TransientStatuses => release_gets >= 2
    /\ \A i \in 1..Len(package_data_results) :
          (/\ package_data_results[i].state = "raised"
           /\ package_data_results[i].status \in TransientStatuses)
          => packages_gets[i] >= 2

\* C9: no resource name is twice among the targets, nor twice among the
\* versions handed to batch_delete_versions.
C9_TargetsDeduplicated ==
    /\ \A i, j \in 1..Len(targets) : i # j => targets[i] # targets[j]
    /\ \A i, j \in 1..Len(Submitted) : i # j => Submitted[i] # Submitted[j]

\* C10: when the documents hold well-formed blocks and blank blocks only,
\* the selection is made over the records of the blocks that are not blank.
C10_EmptyBlocksSkipped ==
    (/\ GatherReturned
     /\ KeyProject \in DOMAIN environ
     /\ \E b \in {Blocks(gather(package_data_results).contents)} :
          /\ \E i \in 1..Len(b) : IsBlank(b[i])
          /\ \A i \in 1..Len(b) : IsBlank(b[i]) \/ IsWellFormed(b[i]))
    => /\ Selected
       /\ package_data =
            RecordsOf(SelectSeq(Blocks(gather(package_data_results).contents),
                                IsWellFormed))

(***************************************************************************)
(* batched on its own, lines 46-55: the generator is created over an       *)
(* iterable and a size, and is then resumed until it is exhausted or       *)
(* raises.                                                                 *)
(***************************************************************************)
\* The longest iterable and the largest size tried.
MaxLen == 4
MaxN == 3

\* The items of the iterables.
Items == {"t1", "t2"}

\* The iterables and sizes: every sequence of at most MaxLen items with
\* every size from -1 to MaxN, and the 125 distinct targets in batches of 50
\* of the specification's example.
BatchedInputs ==
    (UNION {[1..k -> Items] : k \in 0..MaxLen}) \X (-1..MaxN)
      \cup {<<[i \in 1..125 |-> i], 50>>}

InitBatched ==
    /\ InitRun
    /\ \E input \in BatchedInputs :
         /\ b_iterable = input[1]
         /\ b_n = input[2]
    /\ b_it = b_iterable
    /\ b_pc = "created"
    /\ b_out = <<>>

\* Lines 52-55: the next batch is taken; an empty batch ends the loop.
TakeBatch ==
    \E s \in {islice(b_it, b_n)} :
      /\ b_it' = s.rest
      /\ IF s.batch = <<>>
         THEN b_pc' = "exhausted" /\ b_out' = b_out
         ELSE b_pc' = "suspended" /\ b_out' = Append(b_out, s.batch)

\* The first next(): lines 49-54.
BatchedFirst ==
    /\ b_pc = "created"
    /\ IF ~batched(b_iterable, b_n).ok
       THEN b_pc' = "raised" /\ UNCHANGED <<b_it, b_out>>
       ELSE TakeBatch
    /\ UNCHANGED <<b_iterable, b_n, run_vars>>

\* A later next(): lines 55, 53, 54.
BatchedResume ==
    /\ b_pc = "suspended"
    /\ TakeBatch
    /\ UNCHANGED <<b_iterable, b_n, run_vars>>

NextBatched == BatchedFirst \/ BatchedResume

SpecBatched == InitBatched /\ [][NextBatched]_vars

(***************************************************************************)
(* The properties of batched.                                              *)
(***************************************************************************)
BatchSizes == [i \in 1..Len(b_out) |-> Len(b_out[i])]

\* C5: the batches yielded so far, followed by what the iterator still
\* holds, are the iterable; every batch but the last has exactly n items
\* and the last has from 1 to n; an exhausted generator has yielded the
\* whole iterable (125 items in batches of 50: 50, 50, 25); and with n < 1
\* the generator raises without yielding a batch.
C5_BatchedPartitions ==
    /\ b_pc \in {"created", "suspended", "exhausted"} =>
          Flatten(b_out) \o b_it = b_iterable
    /\ \A i \in 1..Len(b_out) :
          /\ Len(b_out[i]) >= 1 /\ Len(b_out[i]) <= b_n
          /\ i < Len(b_out) => Len(b_out[i]) = b_n
    /\ b_pc = "exhausted" =>
          /\ b_n >= 1
          /\ Flatten(b_out) = b_iterable
          /\ b_out = batched(b_iterable, b_n).batches
          /\ (Len(b_iterable) = 125 /\ b_n = 50) => BatchSizes = <<50, 50, 25>>
    /\ b_n < 1 => b_pc \in {"created", "raised"} /\ b_out = <<>>
    /\ b_pc = "raised" => b_n < 1

\* The example's generator, exhausted after three batches.
C5_Witness ==
    /\ b_pc = "exhausted"
    /\ Len(b_iterable) = 125 /\ b_n = 50
    /\ BatchSizes = <<50, 50, 25>>

====
